---- MODULE Spec2Model ----
(***************************************************************************)
(* Model of utils/trainer.py (class Trainer): the epoch loop of train(),   *)
(* the hard-example ranker, the boosted dataset builder and the checkpoint *)
(* save / load pair.                                                       *)
(*                                                                         *)
(* What the collaborators do is input of the model: the model's forward    *)
(* pass gives each example a perplexity and may give an output of the      *)
(* wrong shape, a batch has non-padding tokens or none, validate() finds   *)
(* one of the losses of the dev set, the decoder returns or raises.  The   *)
(* iterators yield the examples of their collection one per batch, in the  *)
(* order of the collection.  The two kinds of optimizer (ScheduledOptimizer *)
(* or a plain one) give the state_dict of the same underlying optimizer.   *)
(***************************************************************************)
EXTENDS Integers, Sequences, FiniteSets, TLC

(***************************************************************************)
(* Bounds of the model.                                                    *)
(***************************************************************************)
MaxEpochs == 4
\* epochs of a run with boosting, and of a run that is interrupted and resumed
MaxBoostEpochs == 3
MaxResumeEpochs == 3
MaxWarmup == 2
MaxPool == 5
MaxRuns == 2
\* batches of the stream handed to one call of train_epoch or validate
MaxBatches == 2
\* words of a sentence handed to forward tokenization
MaxTokens == 2

(***************************************************************************)
(* Program constants.                                                      *)
(***************************************************************************)
\* self.decode_every_num_epochs = 3
decode_every_num_epochs == 3
\* float("inf"): a value above every loss the model draws
Infinity == 1000
\* IEEE-754 binary64: 53 significand bits
SignificandBits == 53
\* width of one limb of the significand literals below
LimbBits == 18

(***************************************************************************)
(* Binary64 arithmetic for  int(boost_percent * len(sorted_examples)).     *)
(* A float is [m |-> bits, e |-> E]: its value is m * 2^-E, m a sequence   *)
(* of bits, least significant first.                                       *)
(***************************************************************************)
RECURSIVE NatBits(_, _)
NatBits(n, width) ==
    IF width = 0 THEN << >> ELSE <<n % 2>> \o NatBits(n \div 2, width - 1)

RECURSIVE LimbsToBits(_)
LimbsToBits(limbs) ==
    IF limbs = << >> THEN << >>
    ELSE NatBits(Head(limbs), LimbBits) \o LimbsToBits(Tail(limbs))

Double(limbs, e) == [m |-> LimbsToBits(limbs), e |-> e]

\* the binary64 values nearest to the decimal literals
Double_0_0 == Double(<<0, 0, 0>>, 53)
Double_0_1 == Double(<<104858, 157286, 104857>>, 56)
Double_0_25 == Double(<<0, 0, 65536>>, 54)
Double_0_3 == Double(<<209715, 52428, 78643>>, 54)
Double_0_5 == Double(<<0, 0, 65536>>, 53)
Double_0_6 == Double(<<209715, 52428, 78643>>, 53)
Double_0_7 == Double(<<157286, 104857, 91750>>, 53)
Double_1_0 == Double(<<0, 0, 65536>>, 52)

\* bits * n, for a natural n (schoolbook, carry propagated to the top)
RECURSIVE MulBits(_, _, _)
MulBits(bits, n, carry) ==
    IF bits = << >>
    THEN IF carry = 0 THEN << >> ELSE <<carry % 2>> \o MulBits(<< >>, n, carry \div 2)
    ELSE LET t == Head(bits) * n + carry
         IN  <<t % 2>> \o MulBits(Tail(bits), n, t \div 2)

\* number of bits up to and including the highest set bit
RECURSIVE BitLength(_)
BitLength(bits) ==
    IF bits = << >> THEN 0
    ELSE IF bits[Len(bits)] = 1 THEN Len(bits)
    ELSE BitLength(SubSeq(bits, 1, Len(bits) - 1))

RECURSIVE IncBits(_)
IncBits(bits) ==
    IF bits = << >> THEN <<1>>
    ELSE IF Head(bits) = 0 THEN <<1>> \o Tail(bits)
    ELSE <<0>> \o IncBits(Tail(bits))

AnySet(bits) == \E i \in 1..Len(bits) : bits[i] = 1

Zeros(n) == [i \in 1..n |-> 0]

\* round to nearest, ties to even, keeping SignificandBits bits
RoundNearestEven(bits) ==
    LET len == BitLength(bits)
        s == len - SignificandBits
    IN  IF s <= 0 THEN SubSeq(bits, 1, len)
        ELSE LET q == SubSeq(bits, s + 1, len)
                 guard == bits[s]
                 sticky == AnySet(SubSeq(bits, 1, s - 1))
                 up == guard = 1 /\ (sticky \/ q[1] = 1)
             IN  Zeros(s) \o (IF up THEN IncBits(q) ELSE q)

\* boost_percent * n  in binary64 (n is converted exactly)
FloatMulInt(p, n) == [m |-> RoundNearestEven(MulBits(p.m, n, 0)), e |-> p.e]

RECURSIVE BitsToNat(_)
BitsToNat(bits) ==
    IF bits = << >> THEN 0 ELSE Head(bits) + 2 * BitsToNat(Tail(bits))

\* int(x) for a float x >= 0: the fraction bits are cut off
FloatToInt(x) ==
    IF Len(x.m) <= x.e THEN 0 ELSE BitsToNat(SubSeq(x.m, x.e + 1, Len(x.m)))

(***************************************************************************)
(* The ranker.  example_to_perplexity is a dict: a sequence of             *)
(* <<key, perplexity>> in insertion order with pairwise distinct keys.     *)
(***************************************************************************)
Min(a, b) == IF a <= b THEN a ELSE b

\* example_to_perplexity[key] = pp: a new key is appended, a known key
\* keeps its place and takes the new value
RECURSIVE DictSetKeepsFirst(_, _, _)
DictSetKeepsFirst(dict, key, pp) ==
    IF dict = << >> THEN << <<key, pp>> >>
    ELSE IF Head(dict)[1] = key THEN dict
    ELSE <<Head(dict)>> \o DictSetKeepsFirst(Tail(dict), key, pp)

RECURSIVE DictSet(_, _, _)
DictSet(dict, key, pp) ==
    IF dict = << >> THEN << <<key, pp>> >>
    ELSE IF Head(dict)[1] = key THEN << <<key, pp>> >> \o Tail(dict)
    ELSE <<Head(dict)>> \o DictSet(Tail(dict), key, pp)

\* one step of the stable descending sort: item goes behind every element
\* whose perplexity is greater than or equal to its own
RECURSIVE InsertUnstable(_, _)
InsertUnstable(sorted, item) ==
    IF sorted = << >> THEN <<item>>
    ELSE IF Head(sorted)[2] > item[2]
         THEN <<Head(sorted)>> \o InsertUnstable(Tail(sorted), item)
         ELSE <<item>> \o sorted

RECURSIVE InsertDescending(_, _)
InsertDescending(sorted, item) ==
    IF sorted = << >> THEN <<item>>
    ELSE IF Head(sorted)[2] >= item[2]
         THEN <<Head(sorted)>> \o InsertDescending(Tail(sorted), item)
         ELSE <<item>> \o sorted

\* sorted(example_to_perplexity.items(), key=lambda kv: kv[1], reverse=True)
RECURSIVE SortedExamples(_)
SortedExamples(items) ==
    IF items = << >> THEN << >>
    ELSE InsertDescending(SortedExamples(SubSeq(items, 1, Len(items) - 1)),
                          items[Len(items)])

\* slice_index = int(boost_percent * len(sorted_examples))
SliceIndex(boost_percent, n) == FloatToInt(FloatMulInt(boost_percent, n))

get_hardest_examples(example_to_perplexity, boost_percent) ==
    LET sorted_examples == SortedExamples(example_to_perplexity)
        slice_index == SliceIndex(boost_percent, Len(sorted_examples))
    IN  SubSeq(sorted_examples, 1, Min(slice_index, Len(sorted_examples)))

\* create_example_objs: one Example per hard instance, src and trg taken
\* from the instance's key
create_example_objs(hard_training_instances) ==
    [i \in 1..Len(hard_training_instances) |-> hard_training_instances[i][1]]

\* existing_data.extend(example_objs)
ExtendDataReplaced(existing_data, example_objs) == example_objs

ExtendData(existing_data, example_objs) == existing_data \o example_objs

\* create_boosted_dataset: a Dataset and a DataIterator over
\* new_training_data; what the iterator yields in one pass
create_boosted_dataset(new_training_data) == new_training_data

\* self.train_iter.data() hands out the iterator's own example collection:
\* what the collection is after existing_data has been extended
DataAfterExtend(collection, existing_data) == existing_data

(***************************************************************************)
(* Token ids and batches.  A batch tensor is a sequence of rows, a row a   *)
(* sequence of token ids.  params.itos lists the vocabulary by id,         *)
(* counting from 0.                                                        *)
(***************************************************************************)
Vocabulary == <<"<pad>", "<unk>", "<sos>", "<eos>", "der", "hund">>

itos == [token_id \in 0..(Len(Vocabulary) - 1) |-> Vocabulary[token_id + 1]]

\* the loop of lines 249-253 over one example: the words up to the first
\* eos_index
RECURSIVE SentenceNoBreak(_, _)
SentenceNoBreak(example, eos_index) ==
    IF example = << >> THEN << >>
    ELSE IF Head(example) = eos_index
         THEN SentenceNoBreak(Tail(example), eos_index)
         ELSE <<itos[Head(example)]>> \o SentenceNoBreak(Tail(example), eos_index)

RECURSIVE Sentence(_, _)
Sentence(example, eos_index) ==
    IF example = << >> THEN << >>
    ELSE IF Head(example) = eos_index THEN << >>
    ELSE <<itos[Head(example)]>> \o Sentence(Tail(example), eos_index)

\* sentence[1:]
DropFirst(sentence) == IF sentence = << >> THEN << >> ELSE Tail(sentence)

batch_reverse_tokenization(batch, eos_index) ==
    [i \in 1..Len(batch) |-> DropFirst(Sentence(batch[i], eos_index))]

\* list(zip(*[batch_reverse_tokenization(data) for data in [src, trg]]))
SrcTrgExamples(src, trg, eos_index) ==
    LET s == batch_reverse_tokenization(src, eos_index)
        t == batch_reverse_tokenization(trg, eos_index)
    IN  [i \in 1..Min(Len(s), Len(t)) |-> <<s[i], t[i]>>]

\* a[:-1] and a[1:] leave max(0, n - 1) of n positions
SliceLen(n) == IF n = 0 THEN 0 ELSE n - 1

\* output[:, :-1, :].contiguous().view(-1, tgt_vocab_size).size(0), for an
\* output of shape <<batch, seq_len, tgt_vocab_size>>
OutputRowsUnsliced(shape) == shape[1] * shape[2]

OutputRows(shape) == shape[1] * SliceLen(shape[2])

\* trg[:, 1:].contiguous().view(-1)
RECURSIVE Flatten(_)
Flatten(rows) ==
    IF rows = << >> THEN << >> ELSE Head(rows) \o Flatten(Tail(rows))

ShiftedTarget(trg) == Flatten([i \in 1..Len(trg) |-> DropFirst(trg[i])])

\* trg.ne(pad_token).sum().item() on the shifted target
IsAnyToken(token_id, pad_token) == TRUE

NotPad(token_id, pad_token) == token_id # pad_token

NonPadCount(flat, pad_token) ==
    Cardinality({i \in 1..Len(flat) : NotPad(flat[i], pad_token)})

(***************************************************************************)
(* Checkpoints.  A parameter key is a sequence of name pieces, so that     *)
(* key.endswith("weight_hh_l0") is a test on its last piece.  A state_dict *)
(* maps keys to values; the value of a parameter is the number of          *)
(* optimizer steps that have updated it.                                   *)
(***************************************************************************)
KeyFc == <<"decoder.fc.", "weight">>
KeyRaw == <<"encoder.rnn.module.", "weight_hh_l0", "_raw">>
KeyHH == <<"encoder.rnn.module.", "weight_hh_l0">>

\* keys of the state_dict that is saved / keys a newly built model expects:
\* weight_hh_l0 is the key the weight-dropped GRU adds to the state_dict and
\* a newly built model does not take (lines 457-460)
TrainedKeys == {KeyFc, KeyRaw, KeyHH}
FreshKeys == {KeyFc, KeyRaw}

EndsWith(key, piece) == key # << >> /\ key[Len(key)] = piece

ContainsPiece(key, piece) == \E i \in 1..Len(key) : key[i] = piece

\* the keys load_checkpoint deletes
DroppedKeyLoose(key) == ContainsPiece(key, "weight_hh_l0")

DroppedKey(key) == EndsWith(key, "weight_hh_l0")

Restrict(f, S) == [x \in S |-> f[x]]

EpochFile(e) == <<"epoch_", e, ".pth.tar">>
BestFile == <<"best", 0, ".pth.tar">>

\* is_best = val_loss_avg < self.best_val_loss
IsBestOrEqual(val_loss, best) == val_loss <= best

IsBest(val_loss, best) == val_loss < best

\* the dict handed to save_checkpoint
CheckpointStateStaleOptimizer(e, model, optim) ==
    [epoch |-> e + 1, state_dict |-> model, optim_dict |-> 0]

CheckpointState(e, model, optim) ==
    [epoch |-> e + 1, state_dict |-> model, optim_dict |-> optim]

\* save_checkpoint: torch.save to epoch_<n>.pth.tar, copied to best.pth.tar
\* when is_best.  fs is the content of the checkpoint directory, which is
\* created when it does not exist.
save_checkpoint_always_best(fs, state, is_best) ==
    LET filepath == EpochFile(state.epoch)
    IN  (BestFile :> state) @@ (filepath :> state) @@ fs

save_checkpoint(fs, state, is_best) ==
    LET filepath == EpochFile(state.epoch)
        saved == (filepath :> state) @@ fs
    IN  IF is_best THEN (BestFile :> saved[filepath]) @@ saved ELSE saved

\* model.load_state_dict(state_dict), strict: the matching keys are copied,
\* and a missing or unexpected key is an error
load_state_dict(model, state_dict) ==
    LET common == DOMAIN model \cap DOMAIN state_dict
    IN  [model |-> [k \in DOMAIN model |->
                      IF k \in common THEN state_dict[k] ELSE model[k]],
         ok |-> DOMAIN model = DOMAIN state_dict]

\* load_checkpoint(model, checkpoint, optimizer) on a loaded checkpoint dict;
\* with_optimizer says whether an optimizer was passed
load_checkpoint_keep_optimizer(model, checkpoint, optimizer, with_optimizer) ==
    LET state_dict == Restrict(checkpoint.state_dict,
                        {k \in DOMAIN checkpoint.state_dict : ~DroppedKey(k)})
        loaded == load_state_dict(model, state_dict)
    IN  [model |-> loaded.model, ok |-> loaded.ok, optimizer |-> optimizer]

load_checkpoint(model, checkpoint, optimizer, with_optimizer) ==
    LET state_dict == Restrict(checkpoint.state_dict,
                        {k \in DOMAIN checkpoint.state_dict : ~DroppedKey(k)})
        loaded == load_state_dict(model, state_dict)
    IN  [model |-> loaded.model,
         ok |-> loaded.ok,
         optimizer |-> IF loaded.ok /\ with_optimizer
                       THEN checkpoint.optim_dict ELSE optimizer]

(***************************************************************************)
(* State of one training process and of the checkpoint directory.          *)
(***************************************************************************)
VARIABLES
    params,                  \* self.params: boost, boost_warmup, boost_percent, epochs, data
    dev_iter,                \* self.dev_iter: the losses per word validate() can find
    scheduler,               \* self.scheduler: present or None, and the metrics it was fed
    train_data,              \* the example collection under self.train_iter
    stream,                  \* batches data_iter has still to yield in train_epoch
    example_to_perplexity,   \* train_epoch's dict
    hard_training_instances, \* train()'s local: unset, or a list of <<key, perplexity>>
    n_word_total,            \* train_epoch's running count of non-padding tokens
    loop_epoch,              \* next value of range(self.max_num_epochs)
    epoch,                   \* self.epoch
    iterations,              \* self.iterations
    best_val_loss,           \* self.best_val_loss
    val_loss_avg,            \* train()'s local
    model_state,             \* self.model.state_dict()
    optim_state,             \* the optimizer's state_dict(): steps taken
    files,                   \* content of model_dir/checkpoints/
    pc,                      \* position in train()
    error,                   \* the exception that ended train(), if any
    run,                     \* number of the process (1 = first run)
    history,                 \* what happened in this run, for the properties
    saved,                   \* per checkpoint file: the trainer state when it was written
    resumed,                 \* the checkpoint this process was restored from, if any
    call                     \* a direct call of one method: its arguments and result

vars == <<params, dev_iter, scheduler, train_data, stream, example_to_perplexity,
          hard_training_instances, n_word_total, loop_epoch, epoch, iterations,
          best_val_loss, val_loss_avg, model_state, optim_state, files, pc,
          error, run, history, saved, resumed, call>>

\* validation losses the dev set can give, in tenths; a run that is resumed
\* draws from the smaller set
Losses == {19, 21, 23, 25}
ResumeLosses == {19, 21}
\* perplexities
Scores == {1, 2}
\* non-padding tokens of one batch
NWords == {0, 1}
\* the training sets: examples are named by their (src, trg) key
TrainSets == {<< >>, <<"a", "b">>}
BoostPercents == {Double_0_5}

\* the hyper-parameters and training sets of the runs
Params ==
    {p \in [boost : BOOLEAN, boost_warmup : 0..MaxWarmup,
            boost_percent : BoostPercents, epochs : 1..MaxEpochs,
            data : TrainSets] :
        p.boost => p.epochs <= MaxBoostEpochs}

Unset == [set |-> FALSE, val |-> << >>]
Bound(v) == [set |-> TRUE, val |-> v]

NoHistory ==
    [val |-> << >>,          \* validation loss of every epoch that reached is_best
     best |-> {},            \* epochs (1-based) in which is_best was true
     boosted |-> {},         \* epochs (1-based) in which the boosting branch ran
     trained |-> << >>,      \* per epoch, the collection train_epoch iterated
     pools |-> << >>,        \* per epoch, the hard pool train_epoch returned
     train_end |-> << >>,    \* per epoch, self.iterations when train_epoch returned
     validated |-> 0,        \* epochs whose validate() returned
     decode_raised |-> {},   \* epochs (1-based) in which the decoder raised
     saves |-> << >>]        \* files written by save_checkpoint, in order

NoCall == [fn |-> "none"]

NoResume == [active |-> FALSE, path |-> BestFile, with_optimizer |-> FALSE]

\* Trainer.__init__
TrainerInit ==
    /\ epoch = 0
    /\ iterations = 0
    /\ best_val_loss = Infinity
    /\ loop_epoch = 0
    /\ val_loss_avg = 0
    /\ stream = << >>
    /\ example_to_perplexity = << >>
    /\ hard_training_instances = Unset
    /\ n_word_total = 0
    /\ pc = "start"
    /\ error = "none"

InitWith(param_set, losses) ==
    /\ params \in param_set
    /\ dev_iter = losses
    /\ scheduler \in [present : BOOLEAN, steps : {<< >>}]
    /\ train_data = params.data
    /\ model_state = [k \in TrainedKeys |-> 0]
    /\ optim_state = 0
    /\ files = << >>
    /\ run = 1
    /\ history = NoHistory
    /\ saved = << >>
    /\ resumed = NoResume
    /\ call = NoCall
    /\ TrainerInit

Init == InitWith(Params, Losses)

Halt(kind) ==
    /\ pc' = "halted"
    /\ error' = kind

\* train(), lines 302-306
TrainStartInverted ==
    /\ pc = "start"
    /\ hard_training_instances' =
          IF params.boost_warmup # 0 THEN Bound(<< >>) ELSE hard_training_instances
    /\ pc' = "epoch"
    /\ UNCHANGED <<params, dev_iter, scheduler, train_data, stream, example_to_perplexity,
                   n_word_total, loop_epoch, epoch, iterations, best_val_loss,
                   val_loss_avg, model_state, optim_state, files, error, run,
                   history, saved, resumed, call>>

TrainStart ==
    /\ pc = "start"
    /\ hard_training_instances' =
          IF params.boost_warmup = 0 THEN Bound(<< >>) ELSE hard_training_instances
    /\ pc' = "epoch"
    /\ UNCHANGED <<params, dev_iter, scheduler, train_data, stream, example_to_perplexity,
                   n_word_total, loop_epoch, epoch, iterations, best_val_loss,
                   val_loss_avg, model_state, optim_state, files, error, run,
                   history, saved, resumed, call>>

\* if self.params.boost and epoch+1 > self.params.boost_warmup
BoostsOffByOne(e) == params.boost /\ e + 1 >= params.boost_warmup

Boosts(e) == params.boost /\ e + 1 > params.boost_warmup

\* one iteration of the for loop up to the call of train_epoch, lines 308-336,
\* and the first lines of train_epoch, 64-68
EpochBegin ==
    /\ pc = "epoch"
    /\ loop_epoch < params.epochs
    /\ epoch' = loop_epoch
    /\ loop_epoch' = loop_epoch + 1
    /\ IF Boosts(loop_epoch)
       THEN IF hard_training_instances.set
            THEN /\ train_data' = DataAfterExtend(train_data,
                                    ExtendData(train_data,
                                      create_example_objs(hard_training_instances.val)))
                 /\ stream' = create_boosted_dataset(
                                 ExtendData(train_data,
                                   create_example_objs(hard_training_instances.val)))
                 /\ history' = [history EXCEPT
                                  !.boosted = @ \cup {loop_epoch + 1},
                                  !.trained = Append(@, train_data')]
                 /\ pc' = "train"
                 /\ error' = error
            ELSE /\ Halt("UnboundLocalError")
                 /\ UNCHANGED <<train_data, stream, history>>
       ELSE /\ stream' = train_data
            /\ history' = [history EXCEPT !.trained = Append(@, train_data)]
            /\ pc' = "train"
            /\ UNCHANGED <<train_data, error>>
    /\ example_to_perplexity' = << >>
    /\ n_word_total' = 0
    /\ UNCHANGED <<params, dev_iter, scheduler, hard_training_instances, iterations,
                   best_val_loss, val_loss_avg, model_state, optim_state, files,
                   run, saved, resumed, call>>

\* range(self.max_num_epochs) is exhausted: train() returns
TrainReturnEarly ==
    /\ pc = "epoch"
    /\ loop_epoch + 1 >= params.epochs
    /\ pc' = "done"
    /\ UNCHANGED <<params, dev_iter, scheduler, train_data, stream, example_to_perplexity,
                   hard_training_instances, n_word_total, loop_epoch, epoch,
                   iterations, best_val_loss, val_loss_avg, model_state,
                   optim_state, files, error, run, history, saved, resumed, call>>

TrainReturn ==
    /\ pc = "epoch"
    /\ loop_epoch >= params.epochs
    /\ pc' = "done"
    /\ UNCHANGED <<params, dev_iter, scheduler, train_data, stream, example_to_perplexity,
                   hard_training_instances, n_word_total, loop_epoch, epoch,
                   iterations, best_val_loss, val_loss_avg, model_state,
                   optim_state, files, error, run, history, saved, resumed, call>>

\* train_epoch, line 101: the assertion fails before loss and optimizer step
TrainBatchShapeError ==
    /\ pc = "train"
    /\ stream # << >>
    /\ Halt("AssertionError")
    /\ UNCHANGED <<params, dev_iter, scheduler, train_data, stream, example_to_perplexity,
                   hard_training_instances, n_word_total, loop_epoch, epoch,
                   iterations, best_val_loss, val_loss_avg, model_state,
                   optim_state, files, run, history, saved, resumed, call>>

\* the part of a batch step up to n_word_total += n_word, lines 72-128
BatchStep(pp) ==
    /\ example_to_perplexity' =
          IF params.boost THEN DictSet(example_to_perplexity, Head(stream), pp)
          ELSE example_to_perplexity
    /\ model_state' = [k \in DOMAIN model_state |-> model_state[k] + 1]
    /\ optim_state' = optim_state + 1

\* one batch of train_epoch, lines 71-137
TrainBatch ==
    /\ pc = "train"
    /\ stream # << >>
    /\ \E pp \in Scores : BatchStep(IF params.boost THEN pp ELSE 1)
    /\ n_word_total' = n_word_total + 1
    /\ iterations' = iterations + 1
    /\ stream' = Tail(stream)
    /\ UNCHANGED <<params, dev_iter, scheduler, train_data, hard_training_instances,
                   loop_epoch, epoch, best_val_loss, val_loss_avg, files, pc,
                   error, run, history, saved, resumed, call>>

\* a batch without non-padding tokens: batch_loss/n_word raises at line 130
TrainBatchZeroWords ==
    /\ pc = "train"
    /\ stream # << >>
    /\ \E pp \in Scores : BatchStep(IF params.boost THEN pp ELSE 1)
    /\ Halt("ZeroDivisionError")
    /\ UNCHANGED <<params, dev_iter, scheduler, train_data, stream, hard_training_instances,
                   n_word_total, loop_epoch, epoch, iterations, best_val_loss,
                   val_loss_avg, files, run, history, saved, resumed, call>>

\* the end of train_epoch, lines 139-144, and its return into train()
TrainEpochReturn ==
    /\ pc = "train"
    /\ stream = << >>
    /\ IF n_word_total = 0
       THEN /\ Halt("ZeroDivisionError")
            /\ UNCHANGED <<hard_training_instances, history>>
       ELSE LET hard_examples ==
                   IF params.boost
                   THEN get_hardest_examples(example_to_perplexity,
                                             params.boost_percent)
                   ELSE << >>
            IN  /\ hard_training_instances' = Bound(hard_examples)
                /\ history' = [history EXCEPT
                                 !.pools = Append(@, hard_examples),
                                 !.train_end = Append(@, iterations)]
                /\ pc' = "validate"
                /\ error' = error
    /\ UNCHANGED <<params, dev_iter, scheduler, train_data, stream, example_to_perplexity,
                   n_word_total, loop_epoch, epoch, iterations, best_val_loss,
                   val_loss_avg, model_state, optim_state, files, run, saved,
                   resumed, call>>

\* validate() returns the loss per word of the dev set, lines 192-233, 352
Validate ==
    /\ pc = "validate"
    /\ \E loss \in dev_iter : val_loss_avg' = loss
    /\ history' = [history EXCEPT !.validated = @ + 1]
    /\ pc' = "decode"
    /\ UNCHANGED <<params, dev_iter, scheduler, train_data, stream, example_to_perplexity,
                   hard_training_instances, n_word_total, loop_epoch, epoch,
                   iterations, best_val_loss, model_state, optim_state, files,
                   error, run, saved, resumed, call>>

\* validate() raises: the assertion of line 219 or a division by zero
ValidateErrorSwallowed ==
    /\ pc = "validate"
    /\ pc' = "decode"
    /\ UNCHANGED <<params, dev_iter, scheduler, train_data, stream, example_to_perplexity,
                   hard_training_instances, n_word_total, loop_epoch, epoch,
                   iterations, best_val_loss, val_loss_avg, model_state,
                   optim_state, files, error, run, history, saved, resumed, call>>

ValidateError ==
    /\ pc = "validate"
    /\ \E kind \in {"AssertionError", "ZeroDivisionError"} : Halt(kind)
    /\ UNCHANGED <<params, dev_iter, scheduler, train_data, stream, example_to_perplexity,
                   hard_training_instances, n_word_total, loop_epoch, epoch,
                   iterations, best_val_loss, val_loss_avg, model_state,
                   optim_state, files, run, history, saved, resumed, call>>

\* if (self.epoch + 1) % self.decode_every_num_epochs == 0
DecodeDue == (epoch + 1) % decode_every_num_epochs = 0

\* lines 365-376 in an epoch without decoding, or with a decoder that returns
Decode ==
    /\ pc = "decode"
    /\ pc' = "sched"
    /\ UNCHANGED <<params, dev_iter, scheduler, train_data, stream, example_to_perplexity,
                   hard_training_instances, n_word_total, loop_epoch, epoch,
                   iterations, best_val_loss, val_loss_avg, model_state,
                   optim_state, files, error, run, history, saved, resumed, call>>

\* lines 365-376: the decoder raises; nothing in train() catches it
DecodeRaises ==
    /\ pc = "decode"
    /\ DecodeDue
    /\ Halt("DecoderError")
    /\ history' = [history EXCEPT !.decode_raised = @ \cup {epoch + 1}]
    /\ UNCHANGED <<params, dev_iter, scheduler, train_data, stream, example_to_perplexity,
                   hard_training_instances, n_word_total, loop_epoch, epoch,
                   iterations, best_val_loss, val_loss_avg, model_state,
                   optim_state, files, run, saved, resumed, call>>

\* lines 383-384
SchedulerStepStale ==
    /\ pc = "sched"
    /\ scheduler' = IF scheduler.present
                    THEN [scheduler EXCEPT !.steps = Append(@, best_val_loss)]
                    ELSE scheduler
    /\ pc' = "save"
    /\ UNCHANGED <<params, dev_iter, train_data, stream, example_to_perplexity,
                   hard_training_instances, n_word_total, loop_epoch, epoch,
                   iterations, best_val_loss, val_loss_avg, model_state,
                   optim_state, files, error, run, history, saved, resumed, call>>

SchedulerStep ==
    /\ pc = "sched"
    /\ scheduler' = IF scheduler.present
                    THEN [scheduler EXCEPT !.steps = Append(@, val_loss_avg)]
                    ELSE scheduler
    /\ pc' = "save"
    /\ UNCHANGED <<params, dev_iter, train_data, stream, example_to_perplexity,
                   hard_training_instances, n_word_total, loop_epoch, epoch,
                   iterations, best_val_loss, val_loss_avg, model_state,
                   optim_state, files, error, run, history, saved, resumed, call>>

\* lines 386-401: is_best, the checkpoint, the new best_val_loss
SaveEpoch ==
    /\ pc = "save"
    /\ LET is_best == IsBest(val_loss_avg, best_val_loss)
           state == CheckpointState(epoch, model_state, optim_state)
           new_best == IF is_best THEN val_loss_avg ELSE best_val_loss
           at_save == [model |-> model_state, optim |-> optim_state,
                       epoch |-> epoch, best |-> new_best]
       IN  /\ files' = save_checkpoint(files, state, is_best)
           /\ best_val_loss' = new_best
           /\ history' = [history EXCEPT
                            !.val = Append(@, val_loss_avg),
                            !.best = IF is_best THEN @ \cup {epoch + 1} ELSE @,
                            !.saves = Append(@, EpochFile(state.epoch))]
           /\ saved' = [f \in DOMAIN files' |->
                          IF f = EpochFile(state.epoch) \/ (f = BestFile /\ is_best)
                          THEN at_save ELSE saved[f]]
    /\ pc' = "epoch"
    /\ UNCHANGED <<params, dev_iter, scheduler, train_data, stream, example_to_perplexity,
                   hard_training_instances, n_word_total, loop_epoch, epoch,
                   iterations, val_loss_avg, model_state, optim_state, error,
                   run, resumed, call>>

Next ==
    \/ TrainStart
    \/ EpochBegin
    \/ TrainReturn
    \/ TrainBatchShapeError
    \/ TrainBatch
    \/ TrainBatchZeroWords
    \/ TrainEpochReturn
    \/ Validate
    \/ ValidateError
    \/ Decode
    \/ DecodeRaises
    \/ SchedulerStep
    \/ SaveEpoch

Spec == Init /\ [][Next]_vars

(***************************************************************************)
(* Interrupt and resume: the process ends (killed, crashed or finished), a *)
(* new one builds model, optimizer and iterators anew, restores them with  *)
(* load_checkpoint from a file of the checkpoint directory, builds a       *)
(* Trainer and calls train().                                              *)
(***************************************************************************)
Resume ==
    /\ run < MaxRuns
    /\ \E path \in DOMAIN files, with_optimizer \in BOOLEAN :
          LET loaded == load_checkpoint([k \in FreshKeys |-> 0], files[path],
                                        0, with_optimizer)
          IN  /\ model_state' = loaded.model
              /\ optim_state' = loaded.optimizer
              /\ pc' = IF loaded.ok THEN "start" ELSE "halted"
              /\ error' = IF loaded.ok THEN "none" ELSE "RuntimeError"
              /\ resumed' = [active |-> TRUE, path |-> path,
                             with_optimizer |-> with_optimizer]
    /\ run' = run + 1
    /\ epoch' = 0
    /\ iterations' = 0
    /\ best_val_loss' = Infinity
    /\ loop_epoch' = 0
    /\ val_loss_avg' = 0
    /\ stream' = << >>
    /\ example_to_perplexity' = << >>
    /\ hard_training_instances' = Unset
    /\ n_word_total' = 0
    /\ scheduler' = [scheduler EXCEPT !.steps = << >>]
    /\ train_data' = params.data
    /\ history' = NoHistory
    /\ UNCHANGED <<params, dev_iter, files, saved, call>>

InitResume ==
    InitWith({p \in Params : /\ p.epochs <= MaxResumeEpochs
                             /\ ~p.boost
                             /\ p.boost_warmup = 0},
             ResumeLosses)

NextResume == Next \/ Resume

SpecResume == InitResume /\ [][NextResume]_vars

(***************************************************************************)
(* get_hardest_examples called on its own: every dict of up to MaxPool     *)
(* scored examples, every boost_percent of RankPercents.                   *)
(***************************************************************************)
PoolKeys == <<"a", "b", "c", "d", "e", "f", "g", "h">>

Pools ==
    UNION {{[i \in 1..n |-> <<PoolKeys[i], pps[i]>>] : pps \in [1..n -> Scores]} :
             n \in 0..MaxPool}

RankPercents == {Double_0_0, Double_0_1, Double_0_25, Double_0_3, Double_0_5,
                 Double_0_6, Double_0_7, Double_1_0}

InitRank ==
    /\ params = [boost |-> TRUE, boost_warmup |-> 0, boost_percent |-> Double_0_5,
                 epochs |-> 1, data |-> << >>]
    /\ dev_iter = Losses
    /\ scheduler = [present |-> FALSE, steps |-> << >>]
    /\ train_data = params.data
    /\ model_state = [k \in TrainedKeys |-> 0]
    /\ optim_state = 0
    /\ files = << >>
    /\ run = 1
    /\ history = NoHistory
    /\ saved = << >>
    /\ resumed = NoResume
    /\ TrainerInit
    /\ call \in [fn : {"get_hardest_examples"}, example_to_perplexity : Pools,
                 boost_percent : RankPercents, returned : {FALSE},
                 result : {<< >>}]

CallGetHardestExamples ==
    /\ call.fn = "get_hardest_examples"
    /\ ~call.returned
    /\ call' = [call EXCEPT
                  !.returned = TRUE,
                  !.result = get_hardest_examples(call.example_to_perplexity,
                                                  call.boost_percent)]
    /\ UNCHANGED <<params, dev_iter, scheduler, train_data, stream, example_to_perplexity,
                   hard_training_instances, n_word_total, loop_epoch, epoch,
                   iterations, best_val_loss, val_loss_avg, model_state,
                   optim_state, files, pc, error, run, history, saved, resumed>>

NextRank == CallGetHardestExamples

SpecRank == InitRank /\ [][NextRank]_vars

(***************************************************************************)
(* train_epoch and validate called on their own, on every stream of up to  *)
(* MaxBatches batches.  A batch is [src, trg, out, loss]: the two id       *)
(* tensors, the shape <<batch, seq_len>> of the model's output and the     *)
(* value of the criterion (a sum over the batch, in hundredths; sums of    *)
(* such values are exact).  Its perplexity per example is taken to be its  *)
(* loss.  The quotient of two numbers is kept as a fraction in lowest      *)
(* terms.                                                                  *)
(***************************************************************************)
RECURSIVE GCD(_, _)
GCD(a, b) == IF b = 0 THEN a ELSE GCD(b, a % b)

\* a / b for b # 0
Quotient(a, b) == [num |-> a \div GCD(a, b), den |-> b \div GCD(a, b)]

BatchSizes == {1, 4}

Examples ==
    {[src |-> <<2, 4, 3>>, trg |-> <<2, 5, 3>>],
     [src |-> <<2, 5, 3>>, trg |-> <<2, 3, 0>>],
     [src |-> <<2, 4, 3>>, trg |-> <<2, 0, 0>>]}

BatchLosses == {300, 500}

Batches ==
    {[src |-> [i \in 1..b |-> ex.src], trg |-> [i \in 1..b |-> ex.trg],
      out |-> <<b, Len(ex.trg) + extra>>, loss |-> loss] :
        b \in BatchSizes, ex \in Examples, extra \in {0, 1}, loss \in BatchLosses}

Streams == UNION {[1..n -> Batches] : n \in 0..MaxBatches}

InitEpoch ==
    /\ \E boost \in BOOLEAN :
          params = [boost |-> boost, boost_warmup |-> 0,
                    boost_percent |-> Double_0_5, epochs |-> 1, data |-> << >>,
                    pad_token |-> 0, eos_index |-> 3]
    /\ dev_iter = Losses
    /\ scheduler = [present |-> FALSE, steps |-> << >>]
    /\ train_data = params.data
    /\ model_state = [k \in TrainedKeys |-> 0]
    /\ optim_state = 0
    /\ files = << >>
    /\ run = 1
    /\ history = NoHistory
    /\ saved = << >>
    /\ resumed = NoResume
    /\ epoch = 0
    /\ iterations = 0
    /\ best_val_loss = Infinity
    /\ loop_epoch = 0
    /\ val_loss_avg = 0
    /\ example_to_perplexity = << >>
    /\ hard_training_instances = Unset
    /\ n_word_total = 0
    /\ error = "none"
    /\ stream \in Streams
    /\ pc = "batch"
    /\ call \in [fn : {"train_epoch", "validate"}, data_iter : {stream},
                 total_loss : {0}, criterion_calls : {0}, returned : {FALSE},
                 loss_per_word : {Quotient(0, 1)}, hard_examples : {<< >>}]

\* the pool after the loop of lines 108-110 over one batch
RECURSIVE PoolUpdate(_, _, _)
PoolUpdate(dict, src_trg_examples, perplexity_per_example) ==
    IF src_trg_examples = << >> THEN dict
    ELSE PoolUpdate(DictSet(dict, Head(src_trg_examples),
                            Head(perplexity_per_example)),
                    Tail(src_trg_examples), Tail(perplexity_per_example))

\* compute_perplexity_on_batch: one value per example of the batch
compute_perplexity_on_batch(batch) == [i \in 1..Len(batch.trg) |-> batch.loss]

EpochHalt(kind) ==
    /\ pc' = "halted"
    /\ error' = kind
    /\ UNCHANGED <<stream, iterations>>

\* one batch of train_epoch, lines 71-137
TrainEpochBatch ==
    /\ pc = "batch"
    /\ call.fn = "train_epoch"
    /\ stream # << >>
    /\ LET batch == Head(stream)
           src_trg_examples == SrcTrgExamples(batch.src, batch.trg, params.eos_index)
           output_size == OutputRows(batch.out)
           trg == ShiftedTarget(batch.trg)
           n_word == NonPadCount(trg, params.pad_token)
       IN  IF output_size # Len(trg)
           THEN /\ EpochHalt("AssertionError")
                /\ UNCHANGED <<example_to_perplexity, model_state, optim_state,
                               n_word_total, call>>
           ELSE /\ example_to_perplexity' =
                      IF params.boost
                      THEN PoolUpdate(example_to_perplexity, src_trg_examples,
                                      compute_perplexity_on_batch(batch))
                      ELSE example_to_perplexity
                /\ call' = [call EXCEPT !.total_loss = @ + batch.loss,
                                        !.criterion_calls = @ + 1]
                /\ model_state' = [k \in DOMAIN model_state |-> model_state[k] + 1]
                /\ optim_state' = optim_state + 1
                /\ n_word_total' = n_word_total + n_word
                /\ IF n_word = 0
                   THEN EpochHalt("ZeroDivisionError")
                   ELSE /\ iterations' = iterations + 1
                        /\ stream' = Tail(stream)
                        /\ UNCHANGED <<pc, error>>
    /\ UNCHANGED <<params, dev_iter, scheduler, train_data, hard_training_instances,
                   loop_epoch, epoch, best_val_loss, val_loss_avg, files, run,
                   history, saved, resumed>>

\* the end of train_epoch, lines 139-144
TrainEpochEnd ==
    /\ pc = "batch"
    /\ call.fn = "train_epoch"
    /\ stream = << >>
    /\ IF n_word_total = 0
       THEN /\ EpochHalt("ZeroDivisionError")
            /\ call' = call
       ELSE /\ call' = [call EXCEPT
                          !.returned = TRUE,
                          !.loss_per_word = Quotient(call.total_loss, n_word_total),
                          !.hard_examples =
                             IF params.boost
                             THEN get_hardest_examples(example_to_perplexity,
                                                       params.boost_percent)
                             ELSE << >>]
            /\ pc' = "returned"
            /\ UNCHANGED <<stream, iterations, error>>
    /\ UNCHANGED <<example_to_perplexity, model_state, optim_state, n_word_total>>
    /\ UNCHANGED <<params, dev_iter, scheduler, train_data, hard_training_instances,
                   loop_epoch, epoch, best_val_loss, val_loss_avg, files, run,
                   history, saved, resumed>>

\* one batch of validate, lines 201-231
ValidateBatchUpdates ==
    /\ pc = "batch"
    /\ call.fn = "validate"
    /\ stream # << >>
    /\ call' = [call EXCEPT !.total_loss = @ + Head(stream).loss,
                            !.criterion_calls = @ + 1]
    /\ optim_state' = optim_state + 1
    /\ iterations' = iterations + 1
    /\ stream' = Tail(stream)
    /\ UNCHANGED <<example_to_perplexity, model_state, n_word_total, pc, error>>
    /\ UNCHANGED <<params, dev_iter, scheduler, train_data, hard_training_instances,
                   loop_epoch, epoch, best_val_loss, val_loss_avg, files, run,
                   history, saved, resumed>>

ValidateBatch ==
    /\ pc = "batch"
    /\ call.fn = "validate"
    /\ stream # << >>
    /\ LET batch == Head(stream)
           output_size == OutputRows(batch.out)
           trg == ShiftedTarget(batch.trg)
           n_word == NonPadCount(trg, params.pad_token)
       IN  IF output_size # Len(trg)
           THEN /\ EpochHalt("AssertionError")
                /\ UNCHANGED <<n_word_total, call>>
           ELSE /\ call' = [call EXCEPT !.total_loss = @ + batch.loss,
                                        !.criterion_calls = @ + 1]
                /\ n_word_total' = n_word_total + n_word
                /\ IF n_word = 0
                   THEN EpochHalt("ZeroDivisionError")
                   ELSE /\ stream' = Tail(stream)
                        /\ UNCHANGED <<pc, error, iterations>>
    /\ UNCHANGED <<example_to_perplexity, model_state, optim_state>>
    /\ UNCHANGED <<params, dev_iter, scheduler, train_data, hard_training_instances,
                   loop_epoch, epoch, best_val_loss, val_loss_avg, files, run,
                   history, saved, resumed>>

\* the end of validate, lines 232-233
ValidateEnd ==
    /\ pc = "batch"
    /\ call.fn = "validate"
    /\ stream = << >>
    /\ IF n_word_total = 0
       THEN /\ EpochHalt("ZeroDivisionError")
            /\ call' = call
       ELSE /\ call' = [call EXCEPT
                          !.returned = TRUE,
                          !.loss_per_word = Quotient(call.total_loss, n_word_total)]
            /\ pc' = "returned"
            /\ UNCHANGED <<stream, iterations, error>>
    /\ UNCHANGED <<example_to_perplexity, model_state, optim_state, n_word_total>>
    /\ UNCHANGED <<params, dev_iter, scheduler, train_data, hard_training_instances,
                   loop_epoch, epoch, best_val_loss, val_loss_avg, files, run,
                   history, saved, resumed>>

NextEpoch ==
    \/ TrainEpochBatch
    \/ TrainEpochEnd
    \/ ValidateBatch
    \/ ValidateEnd

SpecEpoch == InitEpoch /\ [][NextEpoch]_vars

(***************************************************************************)
(* batch_reverse_tokenization called on its own, on the id tensor that     *)
(* forward tokenization makes of a batch of sentences: each sentence       *)
(* becomes [start] + ids of its words + [end of sequence], padded to the   *)
(* length of the longest row of the batch.                                 *)
(***************************************************************************)
\* the id of a word of the vocabulary
stoi(token) == CHOOSE token_id \in DOMAIN itos : itos[token_id] = token

Numericalize(sentence) ==
    <<stoi("<sos>")>> \o [i \in 1..Len(sentence) |-> stoi(sentence[i])]
    \o <<stoi("<eos>")>>

RECURSIVE MaxLen(_)
MaxLen(rows) ==
    IF rows = << >> THEN 0
    ELSE LET rest == MaxLen(Tail(rows))
         IN  IF Len(Head(rows)) > rest THEN Len(Head(rows)) ELSE rest

PadTo(row, width) == row \o [i \in 1..(width - Len(row)) |-> stoi("<pad>")]

ForwardTokenization(sentences) ==
    LET rows == [i \in 1..Len(sentences) |-> Numericalize(sentences[i])]
    IN  [i \in 1..Len(rows) |-> PadTo(rows[i], MaxLen(rows))]

\* words a sentence is made of: none is the end-of-sequence marker
Words == {"der", "hund", "<unk>"}

Sentences == UNION {[1..n -> Words] : n \in 0..MaxTokens}

SentenceBatches == UNION {[1..b -> Sentences] : b \in 1..2}

InitTok ==
    /\ params = [boost |-> TRUE, boost_warmup |-> 0, boost_percent |-> Double_0_5,
                 epochs |-> 1, data |-> << >>, pad_token |-> stoi("<pad>"),
                 eos_index |-> stoi("<eos>")]
    /\ dev_iter = Losses
    /\ scheduler = [present |-> FALSE, steps |-> << >>]
    /\ train_data = params.data
    /\ model_state = [k \in TrainedKeys |-> 0]
    /\ optim_state = 0
    /\ files = << >>
    /\ run = 1
    /\ history = NoHistory
    /\ saved = << >>
    /\ resumed = NoResume
    /\ TrainerInit
    /\ \E sentences \in SentenceBatches :
          call = [fn |-> "batch_reverse_tokenization", sentences |-> sentences,
                  batch |-> ForwardTokenization(sentences), returned |-> FALSE,
                  result |-> << >>]

CallBatchReverseTokenization ==
    /\ call.fn = "batch_reverse_tokenization"
    /\ ~call.returned
    /\ call' = [call EXCEPT
                  !.returned = TRUE,
                  !.result = batch_reverse_tokenization(call.batch, params.eos_index)]
    /\ UNCHANGED <<params, dev_iter, scheduler, train_data, stream, example_to_perplexity,
                   hard_training_instances, n_word_total, loop_epoch, epoch,
                   iterations, best_val_loss, val_loss_avg, model_state,
                   optim_state, files, pc, error, run, history, saved, resumed>>

NextTok == CallBatchReverseTokenization

SpecTok == InitTok /\ [][NextTok]_vars

(***************************************************************************)
(* load_checkpoint called on its own (it is a classmethod): the checkpoint *)
(* argument is a path, of a file that exists or not, or a checkpoint dict. *)
(* An exception is [type, message, names]: names is the path the message   *)
(* reports, << >> when it reports none.                                    *)
(***************************************************************************)
NoException == [type |-> "none", message |-> "", names |-> << >>]

ExceptionClasses == {"RuntimeError", "TypeError", "FileNotFoundError"}

\* the raise statement: an object that is not an exception cannot be raised,
\* a TypeError is raised in its place
Raise(obj) ==
    IF obj.type \in ExceptionClasses THEN obj
    ELSE [type |-> "TypeError",
          message |-> "exceptions must derive from BaseException",
          names |-> << >>]

\* the operand of the raise of line 452: a str
FileDoesntExist(path) ==
    [type |-> "str", message |-> "File doesn't exist {}", names |-> path]

\* what load_state_dict raises on a missing or unexpected key
LoadError ==
    [type |-> "RuntimeError", message |-> "Error(s) in loading state_dict",
     names |-> << >>]

\* the state_dict after the loop of lines 461-463
DropLegacyKeys(state_dict) ==
    Restrict(state_dict, {k \in DOMAIN state_dict : ~DroppedKey(k)})

\* load_checkpoint, lines 450-472, with checkpoint a path or a dict
LoadCheckpointArg(fs, model, checkpoint, optimizer, with_optimizer) ==
    IF checkpoint.kind = "str" /\ checkpoint.path \notin DOMAIN fs
    THEN [model |-> model, optimizer |-> optimizer, passed |-> << >>,
          raised |-> Raise(FileDoesntExist(checkpoint.path))]
    ELSE LET loaded_dict == IF checkpoint.kind = "str" THEN fs[checkpoint.path]
                            ELSE checkpoint.dict
             loaded == load_checkpoint(model, loaded_dict, optimizer,
                                       with_optimizer)
         IN  [model |-> loaded.model, optimizer |-> loaded.optimizer,
              passed |-> DropLegacyKeys(loaded_dict.state_dict),
              raised |-> IF loaded.ok THEN NoException ELSE Raise(LoadError)]

KeyHHDecoder == <<"decoder.rnn.module.", "weight_hh_l0">>

\* keys a checkpoint can hold, and keys a model can expect: a model does not
\* expect the keys of the weight-dropped GRU (lines 457-460)
CheckpointKeys == {KeyFc, KeyRaw, KeyHH, KeyHHDecoder}
ModelKeySets == (SUBSET FreshKeys) \ {{}}

StateDicts == UNION {[S -> {1, 2}] : S \in SUBSET CheckpointKeys}

CheckpointDicts == [epoch : {1}, state_dict : StateDicts, optim_dict : {5}]

CheckpointArgs ==
    [kind : {"str"}, path : {EpochFile(1), BestFile}, dict : {<< >>}]
    \cup [kind : {"dict"}, path : {<< >>}, dict : CheckpointDicts]

InitLoad ==
    /\ params = [boost |-> FALSE, boost_warmup |-> 0, boost_percent |-> Double_0_5,
                 epochs |-> 1, data |-> << >>]
    /\ dev_iter = Losses
    /\ scheduler = [present |-> FALSE, steps |-> << >>]
    /\ train_data = params.data
    /\ \E S \in ModelKeySets : model_state = [k \in S |-> 0]
    /\ optim_state = 0
    /\ \/ files = << >>
       \/ \E c \in CheckpointDicts : files = (EpochFile(1) :> c)
    /\ run = 1
    /\ history = NoHistory
    /\ saved = << >>
    /\ resumed = NoResume
    /\ TrainerInit
    /\ call \in [fn : {"load_checkpoint"}, model : {model_state},
                 checkpoint : CheckpointArgs, optimizer : {optim_state},
                 with_optimizer : BOOLEAN, returned : {FALSE},
                 passed : {<< >>}, raised : {NoException}]
    /\ (files # << >>) => call.checkpoint.kind = "str"

\* Trainer.load_checkpoint(model, checkpoint, optimizer): the model and the
\* optimizer are changed in place, the exception leaves the call
CallLoadCheckpoint ==
    /\ call.fn = "load_checkpoint"
    /\ ~call.returned
    /\ LET out == LoadCheckpointArg(files, model_state, call.checkpoint,
                                    optim_state, call.with_optimizer)
       IN  /\ model_state' = out.model
           /\ optim_state' = out.optimizer
           /\ error' = out.raised.type
           /\ call' = [call EXCEPT !.returned = TRUE,
                                   !.passed = out.passed,
                                   !.raised = out.raised]
    /\ UNCHANGED <<params, dev_iter, scheduler, train_data, stream, example_to_perplexity,
                   hard_training_instances, n_word_total, loop_epoch, epoch,
                   iterations, best_val_loss, val_loss_avg, files, pc, run,
                   history, saved, resumed>>

NextLoad == CallLoadCheckpoint

SpecLoad == InitLoad /\ [][NextLoad]_vars

(***************************************************************************)
(* Properties.                                                             *)
(***************************************************************************)
RECURSIVE MinOf(_)
MinOf(seq) ==
    IF seq = << >> THEN Infinity ELSE Min(Head(seq), MinOf(Tail(seq)))

\* the earliest epoch whose validation loss is the lowest of the run so far
EarliestLowest(vals) ==
    CHOOSE e \in 1..Len(vals) :
        /\ vals[e] = MinOf(vals)
        /\ \A d \in 1..(e - 1) : vals[d] > vals[e]

EpochFiles == {f \in DOMAIN files : f # BestFile}

FatalErrors == {"AssertionError", "ZeroDivisionError"}

\* C1: in every epoch of a run, is_best is true if and only if the epoch's
\* validation loss is strictly below the minimum of the validation losses of
\* the earlier epochs (+infinity before the first); the losses
\* 2.5, 2.1, 2.3, 1.9 make epochs 1, 2 and 4 the best-checkpoint epochs.
C1_IsBestIffStrictImprovement ==
    /\ \A e \in 1..Len(history.val) :
          (e \in history.best) <=>
             (history.val[e] < MinOf(SubSeq(history.val, 1, e - 1)))
    /\ history.best \subseteq 1..Len(history.val)
    /\ history.val = <<25, 21, 23, 19>> => history.best = {1, 2, 4}

C1_Witness ==
    /\ history.val = <<25, 21, 23, 19>>
    /\ history.best = {1, 2, 4}
    /\ pc = "done"

\* C2: after every completed epoch the "best" file is the checkpoint of the
\* earliest epoch with the lowest validation loss so far, and a step changes
\* the "best" file only when it is the checkpoint step of an epoch whose
\* validation loss is strictly below all earlier ones.
C2_BestFileHoldsLowest ==
    Len(history.val) > 0 =>
       LET e == EarliestLowest(history.val)
       IN  /\ BestFile \in DOMAIN files
           /\ EpochFile(e) \in DOMAIN files
           /\ files[BestFile] = files[EpochFile(e)]
           /\ files[BestFile].epoch = e
           /\ saved[BestFile] = saved[EpochFile(e)]
           /\ files[BestFile].state_dict = saved[BestFile].model
           /\ files[BestFile].optim_dict = saved[BestFile].optim

C2_BestFileStep ==
    (\/ (BestFile \in DOMAIN files') # (BestFile \in DOMAIN files)
     \/ /\ BestFile \in DOMAIN files
        /\ BestFile \in DOMAIN files'
        /\ files'[BestFile] # files[BestFile])
    => /\ pc = "save"
       /\ val_loss_avg < MinOf(history.val)
       /\ files'[BestFile].epoch = epoch + 1

C2_BestCheckpoint == []C2_BestFileHoldsLowest /\ [][C2_BestFileStep]_vars

C2_Witness ==
    /\ history.val = <<23, 21, 21, 25>>
    /\ BestFile \in DOMAIN files
    /\ files[BestFile].epoch = 2
    /\ EpochFile(4) \in DOMAIN files

\* C3 (as claimed): a Trainer restored from a checkpoint starts with the
\* epoch index and the best validation loss that the run had when the
\* checkpoint was written.
C3_EpochStateRestored ==
    (resumed.active /\ pc = "start") =>
       /\ epoch = saved[resumed.path].epoch + 1
       /\ best_val_loss = saved[resumed.path].best

\* C4 (as claimed): a decoder that raises does not end training.
C4_DecodeFailureNotFatal ==
    history.decode_raised # {} => pc # "halted"

\* C5: a fatal error in the training or validation pass of an epoch ends
\* train() at once: the step that raises writes no file and leaves
\* best_val_loss alone, no step follows it, files and best_val_loss change
\* only in the checkpoint step, and an epoch has a checkpoint file only if its
\* training pass and its validation pass both returned.
C5_CheckpointOnlyAfterFullEpoch ==
    \A f \in EpochFiles :
        /\ f[2] <= Len(history.train_end)
        /\ f[2] <= history.validated
        /\ f[2] <= Len(history.val)

C5_FatalStep ==
    /\ pc # "halted"
    /\ pc # "save" => (files' = files /\ best_val_loss' = best_val_loss)
    /\ (pc' = "halted" /\ error' \in FatalErrors) =>
          /\ pc \in {"train", "validate"}
          /\ files' = files
          /\ best_val_loss' = best_val_loss
          /\ EpochFile(epoch + 1) \notin DOMAIN files'
          /\ loop_epoch' = loop_epoch

C5_FatalHaltsWithoutCheckpoint ==
    []C5_CheckpointOnlyAfterFullEpoch /\ [][C5_FatalStep]_vars

C5_Witness ==
    /\ pc = "halted"
    /\ error \in FatalErrors
    /\ epoch = 2
    /\ history.validated = 2
    /\ EpochFile(2) \in DOMAIN files
    /\ EpochFile(3) \notin DOMAIN files
    /\ loop_epoch < params.epochs

\* C6: the boosting branch runs in the (1-based) epoch e if and only if
\* boosting is enabled and e > boost_warmup.
C6_BoostIffPastWarmup ==
    /\ \A e \in 1..Len(history.trained) :
          (e \in history.boosted) <=> (params.boost /\ e > params.boost_warmup)
    /\ history.boosted \subseteq 1..Len(history.trained)
    /\ error # "UnboundLocalError"

C6_Witness ==
    /\ params.boost
    /\ params.boost_warmup = 2
    /\ Len(history.trained) = 3
    /\ history.boosted = {3}

\* comparison of two naturals given as bit sequences
BitsLess(a, b) ==
    LET x == SubSeq(a, 1, BitLength(a))
        y == SubSeq(b, 1, BitLength(b))
    IN  IF Len(x) # Len(y) THEN Len(x) < Len(y)
        ELSE \E i \in 1..Len(x) :
                /\ x[i] < y[i]
                /\ \A j \in (i + 1)..Len(x) : x[j] = y[j]

\* k <= x < k + 1, for a float x and a natural k
IsFloorOf(k, x) ==
    /\ ~BitsLess(x.m, Zeros(x.e) \o NatBits(k, 31))
    /\ BitsLess(x.m, Zeros(x.e) \o NatBits(k + 1, 31))

PositionIn(seq, key) == CHOOSE i \in 1..Len(seq) : seq[i][1] = key

C9_CheckpointSelfConsistent ==
    \A f \in EpochFiles :
        LET e == f[2]
            c == files[f]
        IN  /\ c.epoch = e
            /\ e <= Len(history.train_end)
            /\ c.optim_dict = history.train_end[e]
            /\ \A k \in DOMAIN c.state_dict :
                  c.state_dict[k] = history.train_end[e]
            /\ DOMAIN c.state_dict = DOMAIN model_state

C9_Witness ==
    /\ EpochFile(2) \in DOMAIN files
    /\ files[EpochFile(2)].optim_dict = 5
    /\ files[EpochFile(1)].optim_dict = 2
    /\ pc = "train"
    /\ optim_state > 5

\* C10: after save_checkpoint and load_checkpoint of the file into a newly
\* built model, every parameter that is not a dropped key has the value the
\* saved model had, and an optimizer that was passed has the saved optimizer
\* state.
C10_RoundTrip ==
    (resumed.active /\ history = NoHistory /\ pc \in {"start", "halted"}) =>
       LET s == saved[resumed.path]
       IN  /\ \A k \in DOMAIN s.model :
                 ~DroppedKey(k) =>
                    (k \in DOMAIN model_state /\ model_state[k] = s.model[k])
           /\ \A k \in DOMAIN model_state : k \in DOMAIN s.model
           /\ resumed.with_optimizer => optim_state = s.optim
           /\ pc = "start"

C10_Witness ==
    /\ resumed.active
    /\ pc = "start"
    /\ resumed.with_optimizer
    /\ resumed.path = EpochFile(2)
    /\ KeyHH \in DOMAIN files[resumed.path].state_dict
    /\ optim_state = 4
    /\ model_state[KeyRaw] = 4

\* the checkpoint dict a direct call of load_checkpoint works on
LoadedCheckpoint ==
    IF call.checkpoint.kind = "str" THEN files[call.checkpoint.path]
    ELSE call.checkpoint.dict

MissingPathCall ==
    /\ call.fn = "load_checkpoint"
    /\ call.checkpoint.kind = "str"
    /\ call.checkpoint.path \notin DOMAIN files

\* C11 (as claimed): load_checkpoint with a path that does not exist raises
\* an error that reports the missing file, and leaves the model and the
\* optimizer as they were before the call.
C11_MissingPathReported ==
    (MissingPathCall /\ call.returned) =>
       /\ call.raised.type # "none"
       /\ call.raised.names = call.checkpoint.path
       /\ model_state = call.model
       /\ optim_state = call.optimizer

LoadReached ==
    /\ call.fn = "load_checkpoint"
    /\ call.returned
    /\ ~MissingPathCall

\* C12: load_checkpoint removes from the checkpoint's parameter mapping
\* exactly the keys ending in "weight_hh_l0" and passes every other key with
\* its value to the model; the load succeeds if and only if the remaining
\* keys are the keys of the model, whatever legacy keys the checkpoint held,
\* and otherwise it ends in the error of load_state_dict.
C12_LegacyKeysDropped ==
    LoadReached =>
       LET state_dict == LoadedCheckpoint.state_dict
           legacy == DOMAIN state_dict \cap {KeyHH, KeyHHDecoder}
           others == DOMAIN state_dict \ {KeyHH, KeyHHDecoder}
       IN  /\ DOMAIN call.passed = others
           /\ \A k \in others : call.passed[k] = state_dict[k]
           /\ (call.raised.type = "none") <=> (DOMAIN call.model = others)
           /\ call.raised.type \in {"none", "RuntimeError"}
           /\ call.raised.type = "none" =>
                 \A k \in DOMAIN model_state : model_state[k] = state_dict[k]

C12_Witness ==
    /\ LoadReached
    /\ DOMAIN LoadedCheckpoint.state_dict = {KeyFc, KeyRaw, KeyHH}
    /\ DOMAIN call.model = {KeyFc, KeyRaw}
    /\ call.raised.type = "none"
    /\ model_state[KeyRaw] = 2
    /\ model_state[KeyFc] = 1

\* C13: no step of validate changes the model parameters, the optimizer
\* state, the iteration counter, the epoch index or best_val_loss, and none
\* touches the pool of scored examples or yields a hard pool, with boosting
\* enabled or not.
C13_ValidateStep ==
    call.fn = "validate" =>
       /\ model_state' = model_state
       /\ optim_state' = optim_state
       /\ iterations' = iterations
       /\ epoch' = epoch
       /\ best_val_loss' = best_val_loss
       /\ example_to_perplexity' = example_to_perplexity
       /\ hard_training_instances' = hard_training_instances
       /\ call'.hard_examples = << >>

C13_ValidateNeverMutates == [][C13_ValidateStep]_vars

C13_Witness ==
    /\ call.fn = "validate"
    /\ call.returned
    /\ params.boost
    /\ Len(call.data_iter) = MaxBatches
    /\ call.criterion_calls = MaxBatches
    /\ optim_state = 0
    /\ iterations = 0
    /\ example_to_perplexity = << >>

RECURSIVE SumOfLosses(_)
SumOfLosses(batches) ==
    IF batches = << >> THEN 0
    ELSE Head(batches).loss + SumOfLosses(Tail(batches))

\* positions of trg[:, 1:] that hold a token other than the padding token
TokenPositions(trg) ==
    {pos \in (1..Len(trg)) \X (2..Len(trg[1])) :
        trg[pos[1]][pos[2]] # params.pad_token}

RECURSIVE SumOfTokens(_)
SumOfTokens(batches) ==
    IF batches = << >> THEN 0
    ELSE Cardinality(TokenPositions(Head(batches).trg)) + SumOfTokens(Tail(batches))

EpochReturned ==
    /\ call.fn \in {"train_epoch", "validate"}
    /\ call.returned

\* C14: the loss per word that train_epoch or validate returns is the sum of
\* the losses of all batches of the stream divided by the number of
\* non-padding tokens of all their shifted targets; for one batch of 4
\* examples without padding it is the loss of the batch divided by 4 times
\* the length of a shifted target row.
C14_LossPerWord ==
    EpochReturned =>
       LET batches == call.data_iter
           q == call.loss_per_word
       IN  /\ q.den > 0
           /\ SumOfTokens(batches) > 0
           /\ q.num * SumOfTokens(batches) = SumOfLosses(batches) * q.den
           /\ (/\ Len(batches) = 1
               /\ Len(batches[1].trg) = 4
               /\ \A i \in 1..4 : \A j \in 1..Len(batches[1].trg[i]) :
                     batches[1].trg[i][j] # params.pad_token)
              => q.num * (4 * (Len(batches[1].trg[1]) - 1)) = batches[1].loss * q.den

C14_Witness ==
    /\ EpochReturned
    /\ Len(call.data_iter) = 2
    /\ Len(call.data_iter[1].trg) = 4
    /\ call.data_iter[1].loss = 300
    /\ call.data_iter[2].trg = << <<2, 3, 0>> >>
    /\ call.data_iter[2].loss = 500
    /\ call.loss_per_word = [num |-> 800, den |-> 9]

\* C15 (as claimed): train_epoch and validate end in a division by zero
\* exactly when the stream holds no non-padding token of a shifted target in
\* total (the empty stream included); a stream with a positive total never
\* fails with a division by zero.
C15_ZeroDivisionIffNoTokens ==
    (/\ call.fn \in {"train_epoch", "validate"}
     /\ pc \in {"returned", "halted"}
     /\ error # "AssertionError")
    => ((error = "ZeroDivisionError") <=> (SumOfTokens(call.data_iter) = 0))

\* C16: in every batch step of train_epoch and validate the shifted target
\* holds, row after row, the target positions 2..T, and the step computes a
\* loss only if the output's first T-1 positions give as many rows as the
\* shifted target has elements; when the two counts differ the step ends in
\* the AssertionError, with no loss computed, no pool entry written and no
\* optimizer step taken.
C16_BatchStep ==
    (pc = "batch" /\ stream # << >>) =>
       LET batch == Head(stream)
           B == Len(batch.trg)
           T == Len(batch.trg[1])
           rows == batch.out[1] * (batch.out[2] - 1)
           elements == B * (T - 1)
           flat == ShiftedTarget(batch.trg)
       IN  /\ Len(flat) = elements
           /\ \A i \in 1..B : \A j \in 1..(T - 1) :
                 flat[(i - 1) * (T - 1) + j] = batch.trg[i][j + 1]
           /\ rows # elements =>
                 /\ pc' = "halted"
                 /\ error' = "AssertionError"
                 /\ call' = call
                 /\ model_state' = model_state
                 /\ optim_state' = optim_state
                 /\ example_to_perplexity' = example_to_perplexity
                 /\ stream' = stream
           /\ rows = elements =>
                 /\ error' # "AssertionError"
                 /\ call'.criterion_calls = call.criterion_calls + 1
                 /\ call'.total_loss = call.total_loss + batch.loss

C16_ShapeAssertion == [][C16_BatchStep]_vars

C16_Witness ==
    /\ call.fn = "train_epoch"
    /\ pc = "halted"
    /\ error = "AssertionError"
    /\ Len(call.data_iter) = 2
    /\ Len(stream) = 1
    /\ Head(stream).out = <<4, 4>>
    /\ call.criterion_calls = 1
    /\ optim_state = 1

\* position of a phase within one iteration of the loop of train()
PhaseRank ==
    [p \in {"epoch", "save", "sched", "decode", "validate", "train"} |->
        CASE p = "epoch" -> 0
          [] p = "save" -> 1
          [] p = "sched" -> 2
          [] p = "decode" -> 3
          [] p = "validate" -> 4
          [] p = "train" -> 5]

\* a bound on the steps train() has still to take
StepsLeft ==
    CASE pc \in {"done", "halted"} -> 0
      [] pc = "start" -> (params.epochs + 1) * Infinity
      [] OTHER -> (params.epochs - loop_epoch) * Infinity
                  + PhaseRank[pc] + Len(stream) + 1

\* C17: train() ends: every step brings it nearer to its end, and it stops
\* only by returning or by an exception.  When it returns, it has run
\* max_num_epochs epochs and the checkpoint directory holds the file
\* epoch_<e>.pth.tar for each epoch e of 1..max_num_epochs and no other
\* epoch file, each written once and holding its own epoch number, and the
\* "best" file.
C17_FilesAtReturn ==
    /\ pc \notin {"done", "halted"} =>
          \/ ENABLED (TrainStart \/ EpochBegin \/ TrainReturn \/ TrainBatch
                      \/ Validate \/ Decode \/ SchedulerStep \/ SaveEpoch)
          \/ (pc = "train" /\ stream = << >>)
    /\ pc = "done" =>
          /\ error = "none"
          /\ loop_epoch = params.epochs
          /\ Len(history.val) = params.epochs
          /\ history.saves = [e \in 1..params.epochs |-> EpochFile(e)]
          /\ EpochFiles = {EpochFile(e) : e \in 1..params.epochs}
          /\ Cardinality(EpochFiles) = params.epochs
          /\ \A e \in 1..params.epochs : files[EpochFile(e)].epoch = e
          /\ \A e \in 1..params.epochs : EpochFile(e) # BestFile
          /\ BestFile \in DOMAIN files

C17_Step == StepsLeft' < StepsLeft

C17_TerminatesWithFiles == []C17_FilesAtReturn /\ [][C17_Step]_vars

C17_Witness ==
    /\ pc = "done"
    /\ params.epochs = MaxEpochs
    /\ Cardinality(DOMAIN files) = MaxEpochs + 1

\* the moves of train() from phase to phase
PhaseMoves ==
    {<<"start", "epoch">>, <<"epoch", "train">>, <<"epoch", "done">>,
     <<"epoch", "halted">>, <<"train", "train">>, <<"train", "validate">>,
     <<"train", "halted">>, <<"validate", "decode">>, <<"validate", "halted">>,
     <<"decode", "sched">>, <<"decode", "halted">>, <<"sched", "save">>,
     <<"save", "epoch">>}

\* C18: every epoch of train() goes through its phases in the order boosted
\* dataset build, training pass, validation pass, sample decode (only if
\* due), scheduler step, is_best and checkpoint; the training data changes
\* only in the build, parameters and optimizer only in the training pass, the
\* validation loss only in the validation pass, the files only in the
\* checkpoint step; a configured scheduler is stepped once per epoch, with
\* that epoch's validation loss, and the checkpoints of all earlier epochs are
\* written before a training batch of an epoch runs.
C18_PhaseState ==
    /\ ~scheduler.present => scheduler.steps = << >>
    /\ scheduler.present =>
          /\ pc \in {"epoch", "done"} => scheduler.steps = history.val
          /\ pc = "save" => scheduler.steps = Append(history.val, val_loss_avg)
          /\ pc \in {"train", "validate", "decode", "sched"} =>
                Len(scheduler.steps) = epoch
    /\ pc \in {"train", "validate", "decode", "sched", "save"} =>
          /\ Len(history.saves) = epoch
          /\ \A e \in 1..epoch : EpochFile(e) \in DOMAIN files
          /\ EpochFile(epoch + 1) \notin DOMAIN files
          /\ Len(history.trained) = epoch + 1
    /\ pc \in {"decode", "sched", "save"} => history.validated = epoch + 1

C18_PhaseStep ==
    /\ <<pc, pc'>> \in PhaseMoves
    /\ train_data' # train_data => (pc = "epoch" /\ pc' = "train")
    /\ (model_state' # model_state \/ optim_state' # optim_state
           \/ iterations' # iterations) => pc = "train"
    /\ val_loss_avg' # val_loss_avg => pc = "validate"
    /\ (pc = "decode" /\ pc' = "halted") => (epoch + 1) % 3 = 0
    /\ scheduler' # scheduler =>
          /\ pc = "sched"
          /\ scheduler'.steps = Append(scheduler.steps, val_loss_avg)
    /\ (pc = "sched" /\ scheduler.present) => scheduler' # scheduler
    /\ (files' # files \/ best_val_loss' # best_val_loss) => pc = "save"
    /\ pc = "save" => EpochFile(epoch + 1) \in DOMAIN files'

C18_PhaseOrder == []C18_PhaseState /\ [][C18_PhaseStep]_vars

C18_Witness ==
    /\ pc = "done"
    /\ params.boost
    /\ history.boosted = {2, 3}
    /\ scheduler.present
    /\ scheduler.steps = <<25, 21, 23>>
    /\ Cardinality(DOMAIN files) = 4

\* the scored examples of the batches train_epoch has gone through, in batch
\* order: <<(src, trg) pair, perplexity>>
RECURSIVE Occurrences(_)
Occurrences(batches) ==
    IF batches = << >> THEN << >>
    ELSE LET batch == Head(batches)
             pairs == SrcTrgExamples(batch.src, batch.trg, params.eos_index)
         IN  [i \in 1..Len(pairs) |-> <<pairs[i], batch.loss>>]
             \o Occurrences(Tail(batches))

\* C19: while train_epoch runs with boosting, the pool has exactly one entry
\* for each distinct (source, target) pair of the batches gone through, with
\* the score of the pair's last occurrence in batch order; the hard pool
\* returned for boost_percent 0.5 has floor(N / 2) entries, N the number of
\* distinct pairs and not the number of examples of the stream.
C19_PoolLastWriteWins ==
    (call.fn = "train_epoch" /\ params.boost /\ pc \in {"batch", "returned"}) =>
       LET done == Len(call.data_iter) - Len(stream)
           occ == Occurrences(SubSeq(call.data_iter, 1, done))
           pairs == {occ[i][1] : i \in 1..Len(occ)}
           pool == example_to_perplexity
       IN  /\ {pool[i][1] : i \in 1..Len(pool)} = pairs
           /\ Len(pool) = Cardinality(pairs)
           /\ \A i \in 1..Len(pool) : \E n \in 1..Len(occ) :
                 /\ occ[n] = pool[i]
                 /\ \A m \in (n + 1)..Len(occ) : occ[m][1] # pool[i][1]
           /\ pc = "returned" =>
                 Len(call.hard_examples) = Cardinality(pairs) \div 2

C19_Witness ==
    /\ call.fn = "train_epoch"
    /\ params.boost
    /\ pc = "returned"
    /\ Len(call.data_iter) = 2
    /\ call.data_iter[1].src = [i \in 1..4 |-> <<2, 4, 3>>]
    /\ call.data_iter[1].trg = [i \in 1..4 |-> <<2, 5, 3>>]
    /\ call.data_iter[2].src = [i \in 1..4 |-> <<2, 4, 3>>]
    /\ call.data_iter[2].trg = [i \in 1..4 |-> <<2, 5, 3>>]
    /\ call.data_iter[1].loss = 500
    /\ call.data_iter[2].loss = 300
    /\ example_to_perplexity = << << << <<"der">>, <<"hund">> >>, 300>> >>
    /\ call.hard_examples = << >>

C21_BoostStep ==
    (pc = "epoch" /\ loop_epoch < params.epochs
       /\ params.boost /\ loop_epoch + 1 > params.boost_warmup) =>
       LET pool == IF loop_epoch = 0 THEN << >> ELSE history.pools[loop_epoch]
       IN  /\ hard_training_instances.set
           /\ Len(history.pools) = loop_epoch
           /\ loop_epoch = 0 => params.boost_warmup = 0
           /\ hard_training_instances.val = pool
           /\ pc' = "train"
           /\ error' = "none"
           /\ Len(train_data') = Len(train_data) + Len(pool)
           /\ \A i \in 1..Len(pool) :
                 train_data'[Len(train_data) + i] = pool[i][1]

C21_PoolState ==
    /\ error # "UnboundLocalError"
    /\ (pc \in {"validate", "decode", "sched", "save"}
          \/ (pc = "epoch" /\ loop_epoch > 0)) =>
          /\ hard_training_instances.set
          /\ hard_training_instances.val = history.pools[Len(history.pools)]

C21_HardPoolDefined == []C21_PoolState /\ [][C21_BoostStep]_vars

C21_Witness ==
    /\ params.boost
    /\ params.boost_warmup = 1
    /\ pc = "train"
    /\ epoch = 2
    /\ history.boosted = {2, 3}
    /\ Len(history.pools) = 2
    /\ Len(history.pools[1]) = 1
    /\ history.pools[2] # history.pools[1]
    /\ hard_training_instances.val = history.pools[2]

====
